---- MODULE Spec2Model ----
(***************************************************************************)
(* A model of the running-log editor of treinos_menu.py: the duration      *)
(* parser and the canonical formatters, the date-derived keys, the         *)
(* normalization pipeline, the month/week summaries and the script run     *)
(* that Streamlit executes top to bottom on every user action.             *)
(* The form helper time_to_text and the Tempo text of normalize_df are      *)
(* those of app_treinos.py.                                                *)
(*                                                                         *)
(* Text is a sequence of one-character strings, so that formatting and     *)
(* parsing are computed character by character as the code does.           *)
(* Distances are counted in hundredths of a kilometre (the step of the     *)
(* distance input of the forms).                                           *)
(***************************************************************************)
EXTENDS Integers, Sequences, FiniteSets, TLC

VARIABLES
    df,           \* st.session_state.df: the in-memory table, a sequence of rows
    disk,         \* what FILE_PATH holds: NoFile, Broken or a raw table
    up,           \* the file selected in the sidebar uploader (NoFile when none)
    msg,          \* the sidebar message of the last script run
    last,         \* the last user action with what it was given; for "resumos"
                  \* the mode the chat stored in st.session_state.resumo_mode
    val,          \* duration pipeline: the raw cell value
    td,           \* duration pipeline: to_timedelta(val)
    txt,          \* duration pipeline: the Tempo text of td
    td2,          \* duration pipeline: to_timedelta(txt)
    txt2,         \* duration pipeline: the Tempo text of td2
    ptxt,         \* duration pipeline: the Pace text line 67 renders for td
    pstr,         \* duration pipeline: pace_str(td, 1 km)
    pc,           \* duration pipeline: position
    raw,          \* normalization twice: the table handed to normalize_and_fill
    once,         \* normalization twice: normalize_and_fill(raw)
    twice,        \* normalization twice: normalize_and_fill(once)
    npc,          \* normalization twice: position
    form,         \* form helper: the (hours, minutes, seconds) of the form
    ftxt,         \* form helper: what time_to_text gives for form
    ntxt,         \* form helper: the Tempo texts normalization gives for it
    fpc           \* form helper: position

vars == <<df, disk, up, msg, last, val, td, txt, td2, txt2, ptxt, pstr, pc,
          raw, once, twice, npc, form, ftxt, ntxt, fpc>>
appVars == <<df, disk, up, msg, last>>
durVars == <<val, td, txt, td2, txt2, ptxt, pstr, pc>>
normVars == <<raw, once, twice, npc>>
formVars == <<form, ftxt, ntxt, fpc>>

----------------------------------------------------------------------------
(* Text *)

DigitChars == <<"0", "1", "2", "3", "4", "5", "6", "7", "8", "9">>

DigitSet == {DigitChars[i] : i \in 1..10}

DigitMap == [c \in DigitSet |-> (CHOOSE i \in 1..10 : DigitChars[i] = c) - 1]

IsDigit(c) == c \in DigitSet

DigitVal(c) == DigitMap[c]

\* str(n) of a Python int
RECURSIVE IntText(_)
IntText(n) ==
    IF n < 0 THEN <<"-">> \o IntText(0 - n)
    ELSE IF n < 10 THEN <<DigitChars[n + 1]>>
    ELSE IntText(n \div 10) \o <<DigitChars[(n % 10) + 1]>>

\* f"{n:02d}": zero-padded to a width of two, the sign counting in the width
Pad2(n) == IF n >= 0 /\ n < 10 THEN <<"0">> \o IntText(n) ELSE IntText(n)

\* int(''.join(number)) of a list of digit characters
RECURSIVE NumVal(_)
NumVal(number) ==
    IF number = <<>> THEN 0
    ELSE 10 * NumVal(SubSeq(number, 1, Len(number) - 1))
         + DigitVal(number[Len(number)])

----------------------------------------------------------------------------
(* Cell values and durations *)

NoneVal == [kind |-> "none"]
Text(s) == [kind |-> "text", txt |-> s]
TimeOfDay(h, m, s) == [kind |-> "time", hour |-> h, minute |-> m, second |-> s]

\* nanoseconds in a second (pandas' Timedelta resolution)
NanosPerSec == 1000000000

\* A Timedelta is secs whole seconds plus nanos nanoseconds, 0 <= nanos < 1 s,
\* so that secs is the floor of total_seconds().
Timedelta(s, n) == [secs |-> s, nanos |-> n]
Zero == Timedelta(0, 0)
Unset == [secs |-> 0 - 1, nanos |-> 0 - 1]   \* no duration computed yet
FromNanos(n) == Timedelta(n \div NanosPerSec, n % NanosPerSec)
TdAdd(a, b) ==
    Timedelta(a.secs + b.secs + ((a.nanos + b.nanos) \div NanosPerSec),
              (a.nanos + b.nanos) % NanosPerSec)

\* pandas' parse_timedelta_string, as pd.to_timedelta(str) runs it, over the
\* alphabet digits, ":", "-", " " and letters that are no unit abbreviation.
\* The scanner state: neg, have_value, have_hhmmss, current_unit, result,
\* number, unit; err stands for the ValueError it raises.
ScanInit ==
    [neg |-> FALSE, have_value |-> FALSE, have_hhmmss |-> FALSE, cu |-> "none",
     result |-> 0, number |-> <<>>, unit |-> <<>>, err |-> FALSE]

AsNeg(r, neg) == IF neg THEN 0 - r ELSE r

ScanChar(st, c) ==
    IF st.err THEN st
    ELSE IF c = " " THEN st
    ELSE IF c = "-" THEN
        IF st.neg \/ st.have_value \/ st.have_hhmmss
        THEN [st EXCEPT !.err = TRUE]
        ELSE [st EXCEPT !.neg = TRUE]
    ELSE IF IsDigit(c) THEN
        IF st.unit = <<>>
        THEN [st EXCEPT !.number = Append(@, c)]
        ELSE [st EXCEPT !.err = TRUE]       \* timedelta_from_spec: invalid unit
    ELSE IF c = ":" THEN
        LET neg1 == IF st.have_value THEN FALSE ELSE st.neg
            cu1 == CASE st.cu = "none" -> "h"
                     [] st.cu = "h" -> "m"
                     [] OTHER -> "s"
            mult == CASE cu1 = "h" -> 3600
                      [] cu1 = "m" -> 60
                      [] OTHER -> 1
        IN  IF st.number = <<>>
            THEN [st EXCEPT !.err = TRUE]   \* expecting hh:mm:ss format
            ELSE [st EXCEPT !.neg = neg1, !.cu = cu1,
                            !.result = @ + AsNeg(NumVal(st.number) * mult, neg1),
                            !.have_hhmmss = TRUE,
                            !.unit = <<>>, !.number = <<>>]
    ELSE [st EXCEPT !.unit = Append(@, c), !.have_value = TRUE]

RECURSIVE Scan(_, _)
Scan(st, s) == IF s = <<>> THEN st ELSE Scan(ScanChar(st, Head(s)), Tail(s))

Raised == [ok |-> FALSE]
Parsed(t) == [ok |-> TRUE, td |-> t]

\* pd.to_timedelta of a non-empty string: a Timedelta, or Raised
parse_timedelta_string(s) ==
    LET st == Scan(ScanInit, s) IN
    IF st.err THEN Raised
    ELSE IF st.cu # "none" THEN
        IF st.cu # "m" \/ st.number = <<>> THEN Raised   \* expected hh:mm:ss format
        ELSE Parsed(Timedelta(st.result + AsNeg(NumVal(st.number), st.neg), 0))
    ELSE IF st.unit # <<>> THEN Raised                   \* invalid unit abbreviation
    ELSE IF st.have_value THEN Raised                    \* have leftover units
    ELSE IF st.number # <<>>
        THEN Parsed(FromNanos(AsNeg(NumVal(st.number), st.neg)))  \* bare number: ns
        ELSE Parsed(Zero)

\* str(val) of a time-of-day as line 34 builds it: f"{hour}:{minute}:{second}"
TimeText(v) == IntText(v.hour) \o <<":">> \o IntText(v.minute) \o <<":">> \o IntText(v.second)

\* to_timedelta(val): zero for an empty cell, the span of a time of day, the
\* parse of a string, zero when both parse attempts raise
to_timedelta(v) ==
    IF v.kind = "none" \/ (v.kind = "text" /\ v.txt = <<>>) THEN Zero
    ELSE IF v.kind = "time" THEN parse_timedelta_string(TimeText(v)).td
    ELSE LET r == parse_timedelta_string(v.txt) IN
         IF r.ok THEN r.td
         ELSE LET r2 == parse_timedelta_string(v.txt) IN   \* str(val) is val
              IF r2.ok THEN r2.td ELSE Zero

\* a formatter that drops whole days instead of folding them into the hours
TempoTextDropsDays(t) ==
    Pad2((t.secs \div 3600) % 24) \o <<":">> \o Pad2((t.secs % 3600) \div 60)
        \o <<":">> \o Pad2(t.secs % 60)

\* the Tempo text of line 65:
\* f"{int(ts//3600):02d}:{int((ts%3600)//60):02d}:{int(ts%60):02d}"
TempoText(t) ==
    Pad2(t.secs \div 3600) \o <<":">> \o Pad2((t.secs % 3600) \div 60)
        \o <<":">> \o Pad2(t.secs % 60)

\* the Pace text of line 67: "" for a zero span, else
\* f"{int((ts//60)%60):02d}:{int(ts%60):02d}"
PaceText(t) ==
    IF t = Zero THEN <<>>
    ELSE Pad2((t.secs \div 60) % 60) \o <<":">> \o Pad2(t.secs % 60)

\* the hundredths of a kilometre in a kilometre
DistScale == 100

\* int(a / b) for b > 0: Python's int() truncates toward zero
TruncDiv(a, b) == IF a >= 0 THEN a \div b ELSE 0 - ((0 - a) \div b)

\* pace_str(tempo_td, dist): "" for dist <= 0, else int(total_seconds / dist)
\* as MM:SS with unbounded minutes; dist is a number of the form (never NaN)
pace_str(t, dist) ==
    IF dist <= 0 THEN <<>>
    ELSE LET secs == TruncDiv(t.secs * DistScale, dist)
         IN  Pad2(secs \div 60) \o <<":">> \o Pad2(secs % 60)

\* the text the forms build from (hh, mm, ss): lines 166, 173, 204
FormTempo(hh, mm, ss) == Pad2(hh) \o <<":">> \o Pad2(mm) \o <<":">> \o Pad2(ss)

----------------------------------------------------------------------------
(* Dates and the date-derived keys *)

NaT == [kind |-> "NaT"]
Date(y, m, d) == [kind |-> "date", y |-> y, m |-> m, d |-> d]

IsLeap(y) == (y % 4 = 0) /\ ((y % 100 # 0) \/ (y % 400 = 0))

DaysInMonth(y, m) ==
    CASE m \in {4, 6, 9, 11} -> 30
      [] m = 2 -> IF IsLeap(y) THEN 29 ELSE 28
      [] OTHER -> 31

RECURSIVE DaysBeforeMonth(_, _)
DaysBeforeMonth(y, m) ==
    IF m = 1 THEN 0 ELSE DaysBeforeMonth(y, m - 1) + DaysInMonth(y, m - 1)

DaysBeforeYear(y) ==
    (y - 1) * 365 + ((y - 1) \div 4) - ((y - 1) \div 100) + ((y - 1) \div 400)

\* the proleptic Gregorian ordinal of a date (date.toordinal)
Ordinal(dt) == DaysBeforeYear(dt.y) + DaysBeforeMonth(dt.y, dt.m) + dt.d

\* dt.weekday(): Monday is 0
Weekday(dt) == (Ordinal(dt) + 6) % 7

IsoWeek1Monday(y) ==
    LET firstday == Ordinal(Date(y, 1, 1))
        firstweekday == (firstday + 6) % 7
        week1monday == firstday - firstweekday
    IN  IF firstweekday > 3 THEN week1monday + 7 ELSE week1monday

\* dt.isocalendar(): the ISO year and the ISO week
IsoCalendar(dt) ==
    LET today == Ordinal(dt)
        week == (today - IsoWeek1Monday(dt.y)) \div 7
    IN  IF week < 0
        THEN [year |-> dt.y - 1,
              week |-> ((today - IsoWeek1Monday(dt.y - 1)) \div 7) + 1]
        ELSE IF week >= 52 /\ today >= IsoWeek1Monday(dt.y + 1)
        THEN [year |-> dt.y + 1, week |-> 1]
        ELSE [year |-> dt.y, week |-> week + 1]

\* MESES_PT after .capitalize() (written without diacritics)
MESES_PT ==
    <<"Janeiro", "Fevereiro", "Marco", "Abril", "Maio", "Junho", "Julho",
      "Agosto", "Setembro", "Outubro", "Novembro", "Dezembro">>

\* DIAS_PT (written without diacritics)
DIAS_PT == <<"Segunda", "Terca", "Quarta", "Quinta", "Sexta", "Sabado", "Domingo">>

\* mes_ano_label(dt): f"{m} {year}"; the month name is one piece of the text
mes_ano_label(dt) == <<MESES_PT[dt.m], " ">> \o IntText(dt.y)

\* dia_semana_nome(dt)
dia_semana_nome(dt) == <<DIAS_PT[Weekday(dt) + 1]>>

\* semana_iso_label(dt): f"{iso.year}-W{iso.week:02d}"
semana_iso_label(dt) ==
    LET iso == IsoCalendar(dt) IN IntText(iso.year) \o <<"-", "W">> \o Pad2(iso.week)

----------------------------------------------------------------------------
(* The table and the normalization pipeline *)

NaN == [kind |-> "nan"]
Num(v) == [kind |-> "num", v |-> v]

Row(mes_ano, data, semana, dia, dist, tempo, pace) ==
    [mes_ano |-> mes_ano, data |-> data, semana |-> semana, dia |-> dia,
     dist |-> dist, tempo |-> tempo, pace |-> pace]

\* pd.to_datetime(errors="coerce") of one cell
ParseData(c) == IF c.kind = "date" THEN c ELSE NaT

\* pd.to_numeric(errors="coerce") of one cell
ToNumeric(c) == IF c.kind = "num" THEN c ELSE NaN

\* lines 56-73 on one row: Data and distance coerced, Tempo and Pace run
\* through to_timedelta and rendered, the three labels filled from a valid date
FillRow(r) ==
    LET data == ParseData(r.data)
        has == data # NaT
    IN  [mes_ano |-> IF has THEN Text(mes_ano_label(data)) ELSE r.mes_ano,
         data |-> data,
         semana |-> IF has THEN Text(semana_iso_label(data)) ELSE r.semana,
         dia |-> IF has THEN Text(dia_semana_nome(data)) ELSE r.dia,
         dist |-> ToNumeric(r.dist),
         tempo |-> Text(TempoText(to_timedelta(r.tempo))),
         pace |-> Text(PaceText(to_timedelta(r.pace)))]

FillRows(rows) == [i \in 1..Len(rows) |-> FillRow(rows[i])]

Perms(n) == {p \in [1..n -> 1..n] : \A i, j \in 1..n : p[i] = p[j] => i = j}

\* p is an order sort_values("Data") may return for rows: dates ascending and
\* the rows without a date last, in their original order (na_position="last")
IsArgsort(p, rows) ==
    \A j, k \in 1..Len(rows) :
        j < k =>
            LET a == rows[p[j]].data
                b == rows[p[k]].data
            IN  /\ a = NaT => b = NaT
                /\ (a # NaT /\ b # NaT) => Ordinal(a) <= Ordinal(b)
                /\ (a = NaT /\ b = NaT) => p[j] < p[k]

\* p keeps rows of the same date in their original relative order
IsStable(p, rows) ==
    \A j, k \in 1..Len(rows) :
        (j < k /\ rows[p[j]].data = rows[p[k]].data) => p[j] < p[k]

Permute(rows, p) == [k \in 1..Len(rows) |-> rows[p[k]]]

StableSortValues(rows) ==
    {Permute(rows, p) : p \in {q \in Perms(Len(rows)) : IsArgsort(q, rows) /\ IsStable(q, rows)}}

\* df.sort_values("Data"): kind defaults to "quicksort", which leaves the
\* order of rows of equal date unspecified; every order it may return
SortValues(rows) ==
    {Permute(rows, p) : p \in {q \in Perms(Len(rows)) : IsArgsort(q, rows)}}

\* normalize_and_fill(df): the tables it may return (reset_index renumbers
\* the rows 1..n, which the sequence does by itself)
normalize_and_fill(rows) == SortValues(FillRows(rows))

\* what a path or the uploader may hold: nothing, a workbook with its sheet
\* "treinos", or a workbook without that sheet
NoFile == [kind |-> "nofile"]
Broken == [kind |-> "broken"]
Workbook(rows) == [kind |-> "xlsx", treinos |-> rows]

\* load_planilha(f): read_excel raises on a workbook without the sheet
\* "treinos" (the empty set here), else the sheet is normalized
load_planilha(f) == IF f = Broken THEN {} ELSE normalize_and_fill(f.treinos)

----------------------------------------------------------------------------
(* The summaries of the Resumos view and of save_excel_bytes *)

\* the code points of the characters the summary keys are made of
CharOrd(c) ==
    CASE c = "-" -> 45 [] c = "." -> 46
      [] IsDigit(c) -> 48 + DigitVal(c)
      [] c = "<" -> 60 [] c = ">" -> 62
      [] c = "A" -> 65 [] c = "N" -> 78 [] c = "T" -> 84 [] c = "W" -> 87
      [] c = "a" -> 97 [] c = "n" -> 110

\* a < b as Python compares strings
RECURSIVE LexLess(_, _)
LexLess(a, b) ==
    IF b = <<>> THEN FALSE
    ELSE IF a = <<>> THEN TRUE
    ELSE IF Head(a) = Head(b) THEN LexLess(Tail(a), Tail(b))
    ELSE CharOrd(Head(a)) < CharOrd(Head(b))

AnyNaT(rows) == \E i \in 1..Len(rows) : rows[i].data = NaT

\* aux["Data"].dt.to_period("M").astype(str): "YYYY-MM", and "NaT" for a
\* row without a date
mes_key(r) ==
    IF r.data = NaT THEN <<"N", "a", "T">>
    ELSE IntText(r.data.y) \o <<"-">> \o Pad2(r.data.m)

\* str.zfill(2)
ZFill2(s) == IF Len(s) < 2 THEN <<"0">> \o s ELSE s

\* aux["Data"].dt.year.astype(str) + "-W" + isocalendar().week.astype(str).str.zfill(2):
\* the calendar year (a float column, "2024.0", as soon as one row has no
\* date, and then "nan" for that row) and the ISO week ("<NA>" without a date)
semana_key(r, anyNaT) ==
    IF r.data = NaT
    THEN <<"n", "a", "n", "-", "W", "<", "N", "A", ">">>
    ELSE IntText(r.data.y) \o (IF anyNaT THEN <<".", "0">> ELSE <<>>)
         \o <<"-", "W">> \o ZFill2(IntText(IsoCalendar(r.data).week))

MesKeys(rows) == [i \in 1..Len(rows) |-> mes_key(rows[i])]
SemanaKeys(rows) == [i \in 1..Len(rows) |-> semana_key(rows[i], AnyNaT(rows))]

\* aux["tempo_td"]: the Tempo text of the row parsed again (lines 88, 265)
tempo_td(r) == to_timedelta(r.tempo)

\* sum of "Distância (km)" over the rows of key k, NaN skipped
RECURSIVE SumDist(_, _, _, _)
SumDist(rows, keys, k, i) ==
    IF i = 0 THEN 0
    ELSE SumDist(rows, keys, k, i - 1)
         + (IF keys[i] = k /\ rows[i].dist # NaN THEN rows[i].dist.v ELSE 0)

\* sum of tempo_td over the rows of key k
RECURSIVE SumTempo(_, _, _, _)
SumTempo(rows, keys, k, i) ==
    IF i = 0 THEN Zero
    ELSE TdAdd(SumTempo(rows, keys, k, i - 1),
               IF keys[i] = k THEN tempo_td(rows[i]) ELSE Zero)

RECURSIVE SortKeys(_)
SortKeys(S) ==
    IF S = {} THEN <<>>
    ELSE LET k == CHOOSE x \in S : \A o \in S : o = x \/ LexLess(x, o)
         IN  <<k>> \o SortKeys(S \ {k})

\* a grouping that leaves out the rows without a date
GroupByDated(rows, keys) ==
    LET ks == SortKeys({keys[i] : i \in {k \in 1..Len(rows) : rows[k].data # NaT}})
    IN  [j \in 1..Len(ks) |->
            [key |-> ks[j],
             dist_km |-> SumDist(rows, keys, ks[j], Len(rows)),
             tempo |-> TempoText(SumTempo(rows, keys, ks[j], Len(rows)))]]

\* groupby(key).agg(dist_km=sum, tempo=sum).sort_values(key), tempo rendered
\* as text: one row per key, in the order of the key strings
GroupBy(rows, keys) ==
    LET ks == SortKeys({keys[i] : i \in 1..Len(rows)})
    IN  [j \in 1..Len(ks) |->
            [key |-> ks[j],
             dist_km |-> SumDist(rows, keys, ks[j], Len(rows)),
             tempo |-> TempoText(SumTempo(rows, keys, ks[j], Len(rows)))]]

\* the table of mode "mes" (lines 271-276) and the sheet resumo_mes (line 94)
ResumoMes(rows) == GroupBy(rows, MesKeys(rows))

\* the table of mode "semana" (lines 285-290) and the sheet resumo_semana
ResumoSemana(rows) == GroupBy(rows, SemanaKeys(rows))

AllKey(rows) == [i \in 1..Len(rows) |-> <<>>]

\* the metrics of mode "total" (lines 299-306)
ResumoTotal(rows) ==
    LET total_km == SumDist(rows, AllKey(rows), <<>>, Len(rows))
        total_t == SumTempo(rows, AllKey(rows), <<>>, Len(rows))
    IN  [total_km |-> total_km,
         total_t |-> total_t,
         ritmo |-> IF total_km > 0
                   THEN LET ritmo_sec == TruncDiv(total_t.secs * DistScale, total_km)
                        IN  Pad2(ritmo_sec \div 60) \o <<":">> \o Pad2(ritmo_sec % 60)
                   ELSE <<"0", "0", ":", "0", "0">>]

----------------------------------------------------------------------------
(* The script run: the load section, then the view the user acted in *)

MaxRows == 2        \* rows the in-memory table may grow to
MaxNegHours == 2    \* hours below zero a Tempo may drift to and still be normalized

D1 == Date(2024, 12, 30)
D2 == Date(2025, 1, 2)
D3 == Date(2024, 1, 8)
Dates == {D1, D2, D3}

\* what the user may type in the add and edit forms: date, distance, (hh, mm, ss)
FormInputs ==
    { <<D1, 200, <<0, 10, 0>>>>,
      <<D2, 0, <<0, 10, 0>>>>, <<D1, 500, <<0, 25, 0>>>>,
      <<D3, 300, <<0, 15, 0>>>> }

\* the rows a spreadsheet may hold: cells as read_excel returns them
FileRows ==
    { Row(NoneVal, D1, NoneVal, NoneVal, Num(500),
          TimeOfDay(0, 25, 0), TimeOfDay(0, 5, 0)),
      Row(Text(<<"Janeiro", " ", "2", "0", "2", "0">>), NoneVal,
          Text(<<"2", "0", "2", "0", "-", "W", "0", "1">>), Text(<<"Segunda">>),
          Num(300), Text(<<"0", "0", ":", "3", "0", ":", "0", "0">>), NoneVal),
      Row(NoneVal, D1, NoneVal, NoneVal, Num(0),
          Text(<<"0", "0", ":", "2", "0", ":", "0", "0">>),
          Text(<<"0", ":", "0", "4", ":", "0", "0">>)),
      Row(NoneVal, Text(<<"x">>), NoneVal, NoneVal, Text(<<"x">>),
          Text(<<"-", "1", ":", "0", "0", ":", "0", "0">>),
          Text(<<"0", "5", ":", "3", "0">>)),
      Row(NoneVal, D2, NoneVal, NoneVal, Num(1000),
          Text(<<"2", "6", ":", "0", "0", ":", "0", "5">>), TimeOfDay(1, 2, 5)),
      Row(NoneVal, D2, NoneVal, NoneVal, Num(400),
          Text(<<"-", "0", ":", "0", "0", ":", "0", "1">>), NoneVal) }

RECURSIVE SeqsUpTo(_, _)
SeqsUpTo(S, n) ==
    IF n = 0 THEN {<<>>}
    ELSE LET shorter == SeqsUpTo(S, n - 1)
         IN  shorter \cup {Append(t, r) : t \in shorter, r \in S}

\* the workbooks the user may have: the sheet empty, one row, or a dated row
\* followed by a row without a date or by a row without a pace
Files ==
    {Workbook(<<>>)}
    \cup {Workbook(<<r>>) : r \in FileRows}
    \cup {Workbook(<<r, q>>) : r \in {x \in FileRows : x.data \in Dates /\ x.dist = Num(500)},
                               q \in {x \in FileRows : x.data = NoneVal \/ x.pace = NoneVal}}

\* a load section that empties the table when the load raises
LoadFromClears(f, cur) ==
    IF load_planilha(f) = {}
    THEN {[df |-> <<>>, msg |-> "error"]}
    ELSE {[df |-> t, msg |-> "success"] : t \in load_planilha(f)}

\* lines 126-139: FILE_PATH is loaded when it exists, else the uploaded file
\* when one is selected; a load that raises leaves the table as it was.
\* The tables and sidebar messages the section may end with.
LoadFrom(f, cur) ==
    IF load_planilha(f) = {}
    THEN {[df |-> cur, msg |-> "error"]}
    ELSE {[df |-> t, msg |-> "success"] : t \in load_planilha(f)}

LoadSection(cur) ==
    IF disk # NoFile THEN LoadFrom(disk, cur)
    ELSE IF up # NoFile THEN LoadFrom(up, cur)
    ELSE {[df |-> cur, msg |-> ""]}

DropRow(rows, i) == [k \in 1..(Len(rows) - 1) |-> IF k < i THEN rows[k] ELSE rows[k + 1]]

\* the row the add form builds (lines 166-175)
NewRow(data, dist, t) ==
    Row(Text(mes_ano_label(data)), data, Text(semana_iso_label(data)),
        Text(dia_semana_nome(data)), Num(dist),
        Text(FormTempo(t[1], t[2], t[3])),
        Text(pace_str(parse_timedelta_string(FormTempo(t[1], t[2], t[3])).td, dist)))

\* the row the edit view writes over row idx (lines 204-211)
SavedRow(data, dist, t) ==
    Row(Text(mes_ano_label(data)), data, Text(semana_iso_label(data)),
        Text(dia_semana_nome(data)), Num(dist),
        Text(FormTempo(t[1], t[2], t[3])),
        Text(pace_str(to_timedelta(Text(FormTempo(t[1], t[2], t[3]))), dist)))

Init ==
    /\ df = <<>>
    /\ disk \in {NoFile, Broken} \cup Files
    /\ up = NoFile
    /\ msg = ""
   
    /\ last = [op |-> "init"]
    /\ val = NoneVal /\ td = Unset /\ td2 = Unset /\ txt = <<>> /\ txt2 = <<>>
    /\ ptxt = <<>> /\ pstr = <<>>
    /\ pc = "idle"
    /\ raw = <<>> /\ once = <<>> /\ twice = <<>> /\ npc = "idle"
    /\ form = <<>> /\ ftxt = NoneVal /\ ntxt = NoneVal /\ fpc = "idle"

\* a run that changes nothing by itself: the first page load, a change of menu
Rerun ==
    /\ \E l \in LoadSection(df) :
          /\ df' = l.df /\ msg' = l.msg
          /\ last' = [op |-> "rerun", loaded |-> l.df]
    /\ UNCHANGED <<disk, up>>

\* the user selects a file in the uploader, which FILE_PATH missing shows
Upload(f) ==
    /\ disk = NoFile
    /\ up' = f
    /\ \E l \in LoadFrom(f, df) :
          /\ df' = l.df /\ msg' = l.msg
          /\ last' = [op |-> "upload", loaded |-> l.df]
    /\ UNCHANGED disk

\* the user removes the selected file from the uploader
ClearUpload ==
    /\ disk = NoFile /\ up # NoFile
    /\ up' = NoFile
    /\ msg' = ""
    /\ last' = [op |-> "clear"]
    /\ UNCHANGED <<df, disk>>

\* no Tempo of the table is further below zero than the model follows
WithinDrift(rows) ==
    \A i \in 1..Len(rows) : to_timedelta(rows[i].tempo).secs >= 0 - MaxNegHours * 3600

\* the add form is submitted (lines 165-178)
Add ==
    /\ \E l \in LoadSection(df) :
          /\ Len(l.df) < MaxRows
          /\ WithinDrift(l.df)
          /\ \E in \in FormInputs :
                /\ df' \in normalize_and_fill(Append(l.df, NewRow(in[1], in[2], in[3])))
                /\ last' = [op |-> "add", loaded |-> l.df,
                            data |-> in[1], dist |-> in[2],
                            tempo |-> FormTempo(in[3][1], in[3][2], in[3][3])]
          /\ msg' = l.msg
    /\ UNCHANGED <<disk, up>>

\* "Guardar alterações" on row idx of the edit view (lines 203-213)
Save ==
    /\ \E l \in LoadSection(df) :
          /\ WithinDrift(l.df)
          /\ \E idx \in 1..Len(l.df), in \in FormInputs :
                /\ df' \in normalize_and_fill(
                              [l.df EXCEPT ![idx] = SavedRow(in[1], in[2], in[3])])
                /\ last' = [op |-> "save", loaded |-> l.df, idx |-> idx,
                            data |-> in[1], dist |-> in[2],
                            tempo |-> FormTempo(in[3][1], in[3][2], in[3][3])]
          /\ msg' = l.msg
    /\ UNCHANGED <<disk, up>>

\* "Apagar treino" on row idx of the edit view (lines 214-216)
Delete ==
    /\ \E l \in LoadSection(df) :
          /\ \E idx \in 1..Len(l.df) :
                /\ df' = DropRow(l.df, idx)
                /\ last' = [op |-> "delete", loaded |-> l.df, before |-> l.df,
                            idx |-> idx, rec |-> l.df[idx]]
          /\ msg' = l.msg
    /\ UNCHANGED <<disk, up>>

\* the chat of the Resumos view picks a summary (lines 243-256)
Resumos(mode) ==
    /\ \E l \in LoadSection(df) :
          /\ df' = l.df /\ msg' = l.msg
          /\ last' = [op |-> "resumos", loaded |-> l.df, mode |-> mode]
    /\ UNCHANGED <<disk, up>>

Next ==
    \/ Rerun /\ UNCHANGED <<durVars, normVars, formVars>>
    \/ (\E f \in Files \cup {Broken} : Upload(f)) /\ UNCHANGED <<durVars, normVars, formVars>>
    \/ ClearUpload /\ UNCHANGED <<durVars, normVars, formVars>>
    \/ Add /\ UNCHANGED <<durVars, normVars, formVars>>
    \/ Save /\ UNCHANGED <<durVars, normVars, formVars>>
    \/ Delete /\ UNCHANGED <<durVars, normVars, formVars>>
    \/ (\E mode \in {"mes", "semana", "total"} : Resumos(mode)) /\ UNCHANGED <<durVars, normVars, formVars>>

Spec == Init /\ [][Next]_vars

\* what the Resumos view shows for the table and the chosen mode (lines 260-309)
ResumoShown ==
    IF last.op # "resumos" THEN <<>>
    ELSE CASE last.mode = "mes" -> ResumoMes(df)
           [] last.mode = "semana" -> ResumoSemana(df)
           [] OTHER -> <<>>

----------------------------------------------------------------------------
(* The duration pipeline: parse, format, parse again, format again *)

FormHours == {0, 1, 23, 24, 25, 100}
FormMinSec == {0, 1, 59}

DurTexts ==
    { <<>>,                                   \* ""
      <<"0", "5", ":", "3", "0">>,            \* "05:30"  (MM:SS)
      <<"-", "1", ":", "0", "0", ":", "0", "0">>,   \* "-1:00:00"
      <<"-", "0", ":", "0", "0", ":", "0", "1">>,   \* "-0:00:01"
      <<"x">>, <<"9", "0">>, <<"-">>, <<"1", ":", "2", ":", "3", ":", "4">>,
      <<"1", ":", "2", ":", "x">>, <<"1", ":", "2", ":", "3", "x">>,
      <<"1", ":", "0", "2", ":", "0", "5">>,  \* "1:02:05"
      <<"5", "x", "3">>, <<":", "1">>, <<"1", "-", ":", "2", ":", "3">>,
      <<"1", ":", "-", "2", ":", "3">>, <<"-", "5">> }

DurInputs ==
    {NoneVal}
    \cup {Text(s) : s \in DurTexts}
    \cup {Text(FormTempo(h, m, s)) : h \in FormHours, m \in FormMinSec, s \in FormMinSec}
    \cup {TimeOfDay(h, m, s) : h \in {0, 7, 23}, m \in {0, 59}, s \in {0, 5}}

DurInit ==
    /\ val \in DurInputs
    /\ td = Unset /\ td2 = Unset /\ txt = <<>> /\ txt2 = <<>>
    /\ ptxt = <<>> /\ pstr = <<>>
    /\ pc = "start"
    /\ df = <<>> /\ disk = NoFile /\ up = NoFile /\ msg = ""
    /\ last = [op |-> "init"]
    /\ raw = <<>> /\ once = <<>> /\ twice = <<>> /\ npc = "idle"
    /\ form = <<>> /\ ftxt = NoneVal /\ ntxt = NoneVal /\ fpc = "idle"

DurParse ==
    /\ pc = "start"
    /\ td' = to_timedelta(val)
    /\ pc' = "parsed"
    /\ UNCHANGED <<val, txt, td2, txt2, ptxt, pstr>>
    /\ UNCHANGED <<appVars, normVars, formVars>>

DurFormat ==
    /\ pc = "parsed"
    /\ txt' = TempoText(td)
    /\ ptxt' = PaceText(td)
    /\ pstr' = pace_str(td, DistScale)
    /\ pc' = "formatted"
    /\ UNCHANGED <<val, td, td2, txt2>>
    /\ UNCHANGED <<appVars, normVars, formVars>>

DurReparse ==
    /\ pc = "formatted"
    /\ td2' = to_timedelta(Text(txt))
    /\ pc' = "reparsed"
    /\ UNCHANGED <<val, td, txt, txt2, ptxt, pstr>>
    /\ UNCHANGED <<appVars, normVars, formVars>>

DurReformat ==
    /\ pc = "reparsed"
    /\ txt2' = TempoText(td2)
    /\ pc' = "done"
    /\ UNCHANGED <<val, td, txt, td2, ptxt, pstr>>
    /\ UNCHANGED <<appVars, normVars, formVars>>

DurNext == DurParse \/ DurFormat \/ DurReparse \/ DurReformat

SpecDur == DurInit /\ [][DurNext]_vars

----------------------------------------------------------------------------
(* Normalization applied twice to one table *)

MaxNormRows == 2    \* rows of the table handed to normalize_and_fill

\* rows as a spreadsheet holds them and rows as the add form builds them
NormRows == FileRows \cup {NewRow(in[1], in[2], in[3]) : in \in FormInputs}

NormInit ==
    /\ raw \in SeqsUpTo(NormRows, MaxNormRows)
    /\ once = <<>> /\ twice = <<>>
    /\ npc = "start"
    /\ df = <<>> /\ disk = NoFile /\ up = NoFile /\ msg = ""
    /\ last = [op |-> "init"]
    /\ val = NoneVal /\ td = Unset /\ td2 = Unset /\ txt = <<>> /\ txt2 = <<>>
    /\ ptxt = <<>> /\ pstr = <<>>
    /\ pc = "idle"
    /\ form = <<>> /\ ftxt = NoneVal /\ ntxt = NoneVal /\ fpc = "idle"

Normalize ==
    /\ npc = "start"
    /\ once' \in normalize_and_fill(raw)
    /\ npc' = "once"
    /\ UNCHANGED <<raw, twice>>
    /\ UNCHANGED <<appVars, durVars, formVars>>

NormalizeAgain ==
    /\ npc = "once"
    /\ twice' \in normalize_and_fill(once)
    /\ npc' = "twice"
    /\ UNCHANGED <<raw, once>>
    /\ UNCHANGED <<appVars, durVars, formVars>>

NormNext == Normalize \/ NormalizeAgain

SpecNorm == NormInit /\ [][NormNext]_vars

----------------------------------------------------------------------------
(* The form helper of app_treinos.py and the Tempo text of normalization *)

\* the exception a call ends with instead of a value
AttributeError == [kind |-> "raise", exc |-> "AttributeError"]

\* Timedelta.components of one Timedelta: a named tuple of days, hours,
\* minutes and seconds (the days floored, the rest within the day)
Components(t) ==
    [days |-> t.secs \div 86400,
     hours |-> (t.secs % 86400) \div 3600,
     minutes |-> (t.secs % 3600) \div 60,
     seconds |-> t.secs % 60]

\* the Tempo text of normalize_df (app_treinos.py lines 72-74), where
\* td.dt.components is a table with one row of components per record
tempo_hms(t) ==
    LET r == Components(t)
    IN  Pad2(r.hours + 24 * r.days) \o <<":">> \o Pad2(r.minutes)
            \o <<":">> \o Pad2(r.seconds)

\* time_to_text(hours, minutes, seconds) (app_treinos.py lines 129-137):
\* pd.to_timedelta(total, unit="s") is one Timedelta, its components a named
\* tuple, which has no attribute iloc
time_to_text(hours, minutes, seconds) ==
    LET total == hours * 3600 + minutes * 60 + seconds
        comps == Components(Timedelta(total, 0))
    IN  IF "iloc" \notin DOMAIN comps THEN AttributeError
        ELSE LET c == comps.iloc[1]
             IN  Text(Pad2(c.hours + 24 * c.days) \o <<":">> \o Pad2(c.minutes)
                          \o <<":">> \o Pad2(c.seconds))

FormInit ==
    /\ form \in {<<h, m, s>> : h \in FormHours, m \in FormMinSec, s \in FormMinSec}
    /\ ftxt = NoneVal /\ ntxt = NoneVal
    /\ fpc = "start"
    /\ df = <<>> /\ disk = NoFile /\ up = NoFile /\ msg = ""
    /\ last = [op |-> "init"]
    /\ val = NoneVal /\ td = Unset /\ td2 = Unset /\ txt = <<>> /\ txt2 = <<>>
    /\ ptxt = <<>> /\ pstr = <<>>
    /\ pc = "idle"
    /\ raw = <<>> /\ once = <<>> /\ twice = <<>> /\ npc = "idle"

\* the form is submitted: tempo = time_to_text(h, m, s)
FormToText ==
    /\ fpc = "start"
    /\ ftxt' = time_to_text(form[1], form[2], form[3])
    /\ fpc' = "text"
    /\ UNCHANGED <<form, ntxt>>
    /\ UNCHANGED <<appVars, durVars, normVars>>

\* a record of the same duration goes through normalization: the Tempo text
\* of treinos_menu.py line 65 and of app_treinos.py lines 72-74
FormNormalize ==
    /\ fpc = "text"
    /\ LET t == Timedelta(form[1] * 3600 + form[2] * 60 + form[3], 0)
       IN  ntxt' = [Tempo |-> Text(TempoText(t)), tempo_hms |-> Text(tempo_hms(t))]
    /\ fpc' = "done"
    /\ UNCHANGED <<form, ftxt>>
    /\ UNCHANGED <<appVars, durVars, normVars>>

FormNext == FormToText \/ FormNormalize

SpecForm == FormInit /\ [][FormNext]_vars

----------------------------------------------------------------------------
(* The claims *)

EmptyCell(c) == c = NoneVal \/ c = Text(<<>>)

HasDist(r) == r.dist # NaN

\* C1: normalization is idempotent: normalizing the normalized table changes
\* no derived field and no row position.
C1_Idempotent == npc = "twice" => twice = once

\* C2: for every non-negative whole-second duration d (24 hours and more
\* included), parsing the Tempo text of d gives d back, and formatting that
\* again gives the same text.
C2_RoundTrip ==
    (pc = "done" /\ td.secs >= 0 /\ td.nanos = 0) => (td2 = td /\ txt2 = txt)

\* a duration of more than 24 hours has gone through the whole round trip
C2_Witness == pc = "done" /\ td.secs > 86400 /\ td.nanos = 0 /\ txt2 = txt

\* C3: every record of the in-memory table whose distance is <= 0 has the
\* empty string as its pace text.
C3_NoPaceWithoutDistance ==
    \A i \in 1..Len(df) :
        (HasDist(df[i]) /\ df[i].dist.v <= 0) => df[i].pace = Text(<<>>)

\* C4: every record's derived fields are the pace rule applied to its own
\* duration and distance and the date-key functions applied to its own date.
C4_DerivedFromOwnFields ==
    \A i \in 1..Len(df) :
        LET r == df[i] IN
        /\ (HasDist(r) /\ r.dist.v > 0) =>
               r.pace = Text(pace_str(to_timedelta(r.tempo), r.dist.v))
        /\ (HasDist(r) /\ r.dist.v <= 0) => r.pace = Text(<<>>)
        /\ r.data # NaT =>
               /\ r.mes_ano = Text(mes_ano_label(r.data))
               /\ r.semana = Text(semana_iso_label(r.data))
               /\ r.dia = Text(dia_semana_nome(r.data))
        /\ r.data = NaT =>
               EmptyCell(r.mes_ano) /\ EmptyCell(r.semana) /\ EmptyCell(r.dia)

\* the distances of all the records added up, a missing distance as zero
RECURSIVE TotalDist(_)
TotalDist(rows) ==
    IF rows = <<>> THEN 0
    ELSE (IF HasDist(Head(rows)) THEN Head(rows).dist.v ELSE 0) + TotalDist(Tail(rows))

RECURSIVE SumGroups(_)
SumGroups(g) == IF g = <<>> THEN 0 ELSE Head(g).dist_km + SumGroups(Tail(g))

\* C5: in the month summary and in the week summary the distance totals of
\* the groups add up to the distance of all the records of the table,
\* the records without a date included.
C5_Partition ==
    /\ SumGroups(ResumoMes(df)) = TotalDist(df)
    /\ SumGroups(ResumoSemana(df)) = TotalDist(df)

\* a summary is shown of a table that holds a record without a date and a
\* dated record, both with a distance
C5_Witness ==
    /\ last.op = "resumos" /\ last.mode \in {"mes", "semana"}
    /\ Len(ResumoShown) >= 2
    /\ \E i, j \in 1..Len(df) :
          /\ df[i].data = NaT /\ HasDist(df[i]) /\ df[i].dist.v > 0
          /\ df[j].data # NaT /\ HasDist(df[j]) /\ df[j].dist.v > 0

\* C6: every group of the month summary and of the week summary carries an
\* average pace, the pace rule applied to the group's total duration and
\* total distance.
C6_GroupPace ==
    \A g \in {ResumoMes(df), ResumoSemana(df)} :
        \A j \in 1..Len(g) :
            /\ "pace" \in DOMAIN g[j]
            /\ g[j].pace = IF g[j].dist_km <= 0 THEN <<>>
                           ELSE pace_str(to_timedelta(Text(g[j].tempo)), g[j].dist_km)

\* C7: the normalized table is in ascending date order and records of the
\* same date keep the relative order they had in the input.
C7_StableAscending ==
    /\ npc # "start" => once \in StableSortValues(FillRows(raw))
    /\ npc = "twice" => twice \in StableSortValues(FillRows(once))

\* C8: a record without a date is in no group of the month summary and in
\* no group of the week summary: every group key is the key of a dated record.
C8_NullDatesNotSummarised ==
    /\ \A j \in 1..Len(ResumoMes(df)) :
          \E i \in 1..Len(df) :
              df[i].data # NaT /\ MesKeys(df)[i] = ResumoMes(df)[j].key
    /\ \A j \in 1..Len(ResumoSemana(df)) :
          \E i \in 1..Len(df) :
              df[i].data # NaT /\ SemanaKeys(df)[i] = ResumoSemana(df)[j].key

SameRows(a, b) ==
    /\ Len(a) = Len(b)
    /\ \E p \in Perms(Len(a)) : Permute(a, p) = b

\* C9: deleting a record and then adding a record of the same date, distance
\* and duration gives back the records the table had before the delete, up
\* to their positions.
C9_DeleteThenAdd ==
    [][ ( /\ last.op = "delete" /\ last'.op = "add"
          /\ last.rec.data = last'.data
          /\ last.rec.dist = Num(last'.dist)
          /\ last.rec.tempo = Text(last'.tempo) )
        => SameRows(df', last.before) ]_vars

\* C10: the duration parser returns a duration >= 0 for every input.
C10_NonNegative == pc \notin {"start", "idle"} => td.secs >= 0

\* p seconds per km as MM:SS, the minutes not capped
UnboundedPace(p) == Pad2(p \div 60) \o <<":">> \o Pad2(p % 60)

\* C15: the pace text of a pace of p seconds per km is MM = p // 60 and
\* SS = p % 60 with no wrap of the minutes at 60, in pace_str and in the
\* Pace text that normalization renders.
C15_UnboundedPaceMinutes ==
    (pc \in {"formatted", "reparsed", "done"} /\ td.secs > 0 /\ td.nanos = 0) =>
        /\ pstr = UnboundedPace(td.secs)
        /\ ptxt = UnboundedPace(td.secs)

\* t seconds as HH:MM:SS, the days folded into the hours
DurationText(t) ==
    Pad2(t \div 3600) \o <<":">> \o Pad2((t % 3600) \div 60) \o <<":">> \o Pad2(t % 60)

\* C16: the duration text of t whole seconds is t div 3600, (t mod 3600) div 60
\* and t mod 60, zero-padded and without a day component, and time_to_text
\* gives the same text as normalization for the same t.
C16_DurationText ==
    fpc = "done" =>
        LET t == form[1] * 3600 + form[2] * 60 + form[3]
        IN  /\ ntxt.Tempo = Text(DurationText(t))
            /\ ntxt.tempo_hms = Text(DurationText(t))
            /\ ftxt = ntxt.tempo_hms
            /\ ftxt = ntxt.Tempo

\* C17: after normalization a record without a valid date has an empty month
\* label, week label and weekday name, whatever the input held there, and a
\* record with a valid date has the three filled from that date.
C17_LabelsFollowDate ==
    npc \in {"once", "twice"} =>
        \A i \in 1..Len(once) :
            LET r == once[i] IN
            /\ r.data = NaT =>
                   EmptyCell(r.mes_ano) /\ EmptyCell(r.semana) /\ EmptyCell(r.dia)
            /\ r.data # NaT =>
                   /\ r.mes_ano = Text(mes_ano_label(r.data))
                   /\ r.semana = Text(semana_iso_label(r.data))
                   /\ r.dia = Text(dia_semana_nome(r.data))

\* C18: a change made by add, update or delete is still in the table after
\* the next action that is neither a mutation nor a load the user asked for
\* (a run of the script, a summary chosen in the chat, the upload removed),
\* with and without a file on disk or in the uploader.
C18_MutationSurvivesRerun ==
    [][ ( /\ last.op \in {"add", "save", "delete"}
          /\ last'.op \in {"rerun", "resumos", "clear"} )
        => df' = df ]_vars

\* C19: an update changes only the selected record: the table keeps its
\* number of records, the selected record has the date, distance and duration
\* of the form, and every other record keeps its date, distance and duration,
\* wherever the sort puts them.
C19_UpdateChangesOnlySelected ==
    [][ last'.op = "save" =>
          LET before == last'.loaded
              idx == last'.idx
          IN  /\ Len(df') = Len(before)
              /\ \E p \in Perms(Len(before)) :
                    \A k \in 1..Len(before) :
                        LET r == df'[p[k]] IN
                        IF k = idx
                        THEN /\ r.data = last'.data
                             /\ r.dist = Num(last'.dist)
                             /\ r.tempo = Text(last'.tempo)
                        ELSE /\ r.data = before[k].data
                             /\ r.dist = before[k].dist
                             /\ r.tempo = before[k].tempo ]_vars

\* C11: a load that fails is reported in the sidebar and leaves the table the
\* run works on exactly the table held before the load attempt.
C11_FailedLoadKeepsTable ==
    [][ LET src == IF disk # NoFile THEN disk ELSE up'
        IN  /\ (src # NoFile /\ load_planilha(src) = {}) =>
                   (msg' = "error" /\ last'.loaded = df)
            /\ msg' = "error" => last'.loaded = df ]_vars

\* a workbook without the sheet was uploaded while the table held a record,
\* and the record is still there
C11_Witness ==
    /\ last.op = "upload" /\ up = Broken /\ msg = "error"
    /\ Len(df) > 0 /\ last.loaded = df

\* C12: add, update and delete each end with the normalization of the whole
\* table: after a delete the table is normalize(the table without the record),
\* as after an add or an update it is normalize of the changed table.
C12_MutationsNormalize ==
    [][ /\ last'.op = "delete" =>
               df' \in normalize_and_fill(DropRow(last'.loaded, last'.idx))
        /\ last'.op = "add" =>
               \E in \in FormInputs :
                   df' \in normalize_and_fill(
                               Append(last'.loaded, NewRow(in[1], in[2], in[3])))
        /\ last'.op = "save" =>
               \E in \in FormInputs :
                   df' \in normalize_and_fill(
                               [last'.loaded EXCEPT ![last'.idx] =
                                    SavedRow(in[1], in[2], in[3])]) ]_vars

\* C13: the week summary groups by the ISO week label: the key of a dated
\* record is its week label {ISO year}-W{ISO week}, and two dated records
\* share a group exactly when their ISO year and ISO week are the same.
C13_WeekGroupsByIsoLabel ==
    \A i, j \in 1..Len(df) :
        (df[i].data # NaT /\ df[j].data # NaT) =>
            /\ SemanaKeys(df)[i] = semana_iso_label(df[i].data)
            /\ (SemanaKeys(df)[i] = SemanaKeys(df)[j])
                   <=> (IsoCalendar(df[i].data) = IsoCalendar(df[j].data))

\* (y1, n1) is not after (y2, n2)
PairLeq(y1, n1, y2, n2) == y1 < y2 \/ (y1 = y2 /\ n1 <= n2)

\* C14: the groups of a summary are listed in chronological order: the
\* records of an earlier group are of no later (year, month), respectively
\* (ISO year, ISO week), than the records of a later group.
C14_ChronologicalGroups ==
    /\ \A j, k \in 1..Len(ResumoMes(df)) : \A a, b \in 1..Len(df) :
          ( /\ j < k /\ df[a].data # NaT /\ df[b].data # NaT
            /\ MesKeys(df)[a] = ResumoMes(df)[j].key
            /\ MesKeys(df)[b] = ResumoMes(df)[k].key )
          => PairLeq(df[a].data.y, df[a].data.m, df[b].data.y, df[b].data.m)
    /\ \A j, k \in 1..Len(ResumoSemana(df)) : \A a, b \in 1..Len(df) :
          ( /\ j < k /\ df[a].data # NaT /\ df[b].data # NaT
            /\ SemanaKeys(df)[a] = ResumoSemana(df)[j].key
            /\ SemanaKeys(df)[b] = ResumoSemana(df)[k].key )
          => PairLeq(IsoCalendar(df[a].data).year, IsoCalendar(df[a].data).week,
                     IsoCalendar(df[b].data).year, IsoCalendar(df[b].data).week)

====
